---- MODULE Spec2Model ----
(***************************************************************************)
(* A model of dashboard.py, the diagnostic clinic dashboard: the procedure *)
(* classifier, the cached workbook loader, and the script body that is     *)
(* re-executed from the top on every interaction (header, tab 1 .. tab 4). *)
(*                                                                         *)
(* Text is a sequence of one-character strings, so that substring search   *)
(* and case conversion are computed rather than assumed.                   *)
(***************************************************************************)
EXTENDS Integers, Sequences, FiniteSets, TLC

VARIABLES
    procedure_type,   \* categorize_procedure: the argument
    category,         \* categorize_procedure: the returned value, NoResult before the call
    workbook,         \* the file at DASHBOARD_DATA_PATH, as it is on disk now
    cache,            \* st.cache_data's store for load_data: <<>> or <<the returned pair>>
    tab1_dates,       \* session value of the date_input keyed "tab1_dates", <<>> when never set
    tab2_dates,       \* ... keyed "tab2_dates"
    tab4_dates,       \* ... keyed "tab4_dates"
    pc,               \* where the current run of the script is
    data,             \* script global `data`
    total_procedures, \* script global `total_procedures`
    header,           \* what the header above the tabs has shown in this run
    tab1,             \* what tab 1 has computed in this run
    tab2,             \* what tab 2 has computed in this run
    tab3,             \* what tab 3 has computed in this run
    tab4              \* what tab 4 has computed in this run

classifyVars == <<procedure_type, category>>

sourceVars == <<workbook, cache>>

widgetVars == <<tab1_dates, tab2_dates, tab4_dates>>

runVars == <<pc, data, total_procedures, header, tab1, tab2, tab3, tab4>>

vars == <<classifyVars, sourceVars, widgetVars, runVars>>

-----------------------------------------------------------------------------
(* Text helpers                                                            *)

LowerChars ==
    <<"a","b","c","d","e","f","g","h","i","j","k","l","m",
      "n","o","p","q","r","s","t","u","v","w","x","y","z">>

UpperChars ==
    <<"A","B","C","D","E","F","G","H","I","J","K","L","M",
      "N","O","P","Q","R","S","T","U","V","W","X","Y","Z">>

\* str.upper() on one character
UpperChar(c) ==
    IF \E i \in 1..Len(LowerChars) : LowerChars[i] = c
    THEN UpperChars[CHOOSE i \in 1..Len(LowerChars) : LowerChars[i] = c]
    ELSE c

\* str.lower() on one character
LowerChar(c) ==
    IF \E i \in 1..Len(UpperChars) : UpperChars[i] = c
    THEN LowerChars[CHOOSE i \in 1..Len(UpperChars) : UpperChars[i] = c]
    ELSE c

upper(s) == [i \in 1..Len(s) |-> UpperChar(s[i])]

lower(s) == [i \in 1..Len(s) |-> LowerChar(s[i])]

\* Python's `keyword in text`
Contains(text, keyword) ==
    \E i \in 0..(Len(text) - Len(keyword)) :
        SubSeq(text, i + 1, i + Len(keyword)) = keyword

\* A blank spreadsheet cell read by pandas (a float NaN, not a string)
NaNCell == <<"<NaN>">>

\* str(value): text stays as it is, a NaN cell becomes the text 'nan'
str(value) == IF value = NaNCell THEN <<"n","a","n">> ELSE value

-----------------------------------------------------------------------------
(* categorize_procedure                                                    *)

\* `category` before the function has returned
NoResult == "<none>"

\* The `categories` dict literal; a dict iterates in insertion order.
categories ==
  <<
    [category |-> "OPEN MRI", keywords |-> <<
        <<"O","P","E","N"," ","M","R","I">>,
        <<"O","P","E","N"," ","M","A","G","N","E","T","I","C">>>>],
    [category |-> "US", keywords |-> <<
        <<"U","S">>,
        <<"U","L","T","R","A">>,
        <<"S","O","N","O","G","R","A","M">>>>],
    [category |-> "CT", keywords |-> <<
        <<"C","T">>,
        <<"C","A","T"," ","S","C","A","N">>,
        <<"C","O","M","P","U","T","E","D"," ","T","O","M","O","G","R","A","P","H","Y">>>>],
    [category |-> "SLEEP STUDY", keywords |-> <<
        <<"S","L","E","E","P">>>>],
    [category |-> "MRI", keywords |-> <<
        <<"M","R","I">>,
        <<"M","A","G","N","E","T","I","C">>>>],
    [category |-> "PET/CT", keywords |-> <<
        <<"P","E","T","/","C","T">>,
        <<"P","E","T"," ","C","T">>>>],
    [category |-> "XRAY", keywords |-> <<
        <<"X","R","A","Y">>,
        <<"X","-","R","A","Y">>,
        <<"X"," ","R","A","Y">>,
        <<"R","A","D">>>>],
    [category |-> "MAMMOGRAM", keywords |-> <<
        <<"M","A","M","M","O">>,
        <<"B","R","E","A","S","T">>>>],
    [category |-> "NCS", keywords |-> <<
        <<"N","C","S">>,
        <<"N","E","R","V","E">>,
        <<"C","O","N","D","U","C","T","I","O","N">>>>],
    [category |-> "BONE DENSITY", keywords |-> <<
        <<"B","O","N","E">>,
        <<"D","E","X","A">>,
        <<"D","E","N","S","I","T","O","M","E","T","R","Y">>>>],
    [category |-> "NUCLEAR MEDICINE", keywords |-> <<
        <<"N","U","C"," ","M","E","D">>,
        <<"N","U","C","L","E","A","R">>,
        <<"T","H","Y","R","O","I","D"," ","U","P","T","A","K","E">>>>],
    [category |-> "CARDIAC PET", keywords |-> <<
        <<"C","A","R","D","I","A","C"," ","P","E","T">>,
        <<"H","E","A","R","T"," ","P","E","T">>>>]
  >>

\* `any(keyword in procedure_type for keyword in keywords)`
AnyKeyword(text, keywords) ==
    \E j \in 1..Len(keywords) : Contains(text, keywords[j])

\* The for loop over table.items(): return at the first entry that matches,
\* 'OTHER' when the loop runs out.
RECURSIVE CategorizeLoop(_, _, _)
CategorizeLoop(text, table, i) ==
    IF i > Len(table) THEN "OTHER"
    ELSE IF AnyKeyword(text, table[i].keywords) THEN table[i].category
    ELSE CategorizeLoop(text, table, i + 1)

\* (variant: a table in which plain MRI is tested before OPEN MRI)
categoriesMriFirst ==
    <<categories[5]>> \o SubSeq(categories, 1, 4) \o SubSeq(categories, 6, Len(categories))

categorize_procedure_MriFirst(value) ==
    CategorizeLoop(upper(str(value)), categoriesMriFirst, 1)

\* categorize_procedure: upper-case the text of the value, then the loop
categorize_procedure(value) ==
    CategorizeLoop(upper(str(value)), categories, 1)

-----------------------------------------------------------------------------
(* Records and dates                                                       *)
(*                                                                         *)
(* A date-time is a number of seconds, so a calendar day is 86400 of them. *)
(* A loaded record has the fields appointment_date, type, status,          *)
(* created_by, created_date, canceled_by, canceled_date (the seven renamed *)
(* columns) and procedure_category.                                        *)

\* pandas' missing date-time
NaT == 0

\* Series.dt.date / Timestamp.date(): the calendar day of a date-time
DateOf(ts) == ts \div 86400

\* A blank 'Status' cell (NaN): it equals no text, and agg 'count' leaves it out.
NoStatus == "<NaN>"

\* `x == 'Cancelled'`
IsCancelled(r) == r.status = "Cancelled"

\* number of entries of a sequence of records that satisfy Test
CountIf(rows, Test(_)) == Cardinality({i \in DOMAIN rows : Test(rows[i])})

\* data['Appointment Date'].min().date() and .max().date(); min and max skip NaT
DatedRows(d) == {i \in DOMAIN d : d[i].appointment_date # NaT}

min_date(d) ==
    DateOf(d[CHOOSE i \in DatedRows(d) :
        \A j \in DatedRows(d) : d[i].appointment_date <= d[j].appointment_date].appointment_date)

max_date(d) ==
    DateOf(d[CHOOSE i \in DatedRows(d) :
        \A j \in DatedRows(d) : d[i].appointment_date >= d[j].appointment_date].appointment_date)

\* (variant: the three date inputs under one key, that of tab 1)
date_input_SharedKey(widget, d) ==
    IF tab1_dates = <<>> THEN <<min_date(d), max_date(d)>> ELSE tab1_dates

\* st.date_input(label, [min_date, max_date], key=...): the session's value
\* for the key when the user has set one, the default range otherwise
date_input(widget, d) ==
    IF widget = <<>> THEN <<min_date(d), max_date(d)>> ELSE widget

\* one element of the mask: a comparison with a missing date is False
InRange(r, start_date, end_date) ==
    /\ r.appointment_date # NaT
    /\ DateOf(r.appointment_date) >= start_date
    /\ DateOf(r.appointment_date) <= end_date

\* data[mask]
FilterByDate(d, start_date, end_date) ==
    SelectSeq(d, LAMBDA r : InRange(r, start_date, end_date))

-----------------------------------------------------------------------------
(* Arithmetic of the rates                                                 *)
(*                                                                         *)
(* A rate rounded to one decimal is held as a whole number of tenths of a  *)
(* percent: 12.5% is 125.                                                  *)

\* numerator / denominator rounded to a whole number, halves to the even one
\* (numpy's round), for numerator >= 0 and denominator > 0
RoundHalfEven(numerator, denominator) ==
    LET q == numerator \div denominator
        r == numerator % denominator
    IN  IF 2 * r < denominator THEN q
        ELSE IF 2 * r > denominator THEN q + 1
        ELSE IF q % 2 = 0 THEN q ELSE q + 1

\* (count / total * 100).round(1), in tenths of a percent
RatePct(count, total) == RoundHalfEven(count * 1000, total)

\* The float NaN that 0 / 0 gives on a pandas column; it is not a number of
\* tenths, and every comparison with it is False.
NaNRate == -1

\* (Cancelled / Total * 100).round(1) on two count columns, in tenths of a
\* percent: the division of two int64 columns is a float division, and 0 / 0
\* is NaN, which round leaves as it is
GroupRatePct(cancelled, total) ==
    IF total = 0 THEN NaNRate ELSE RatePct(cancelled, total)

\* every arrangement of a set of rows in non-increasing order of a column:
\* sort_values(column, ascending=False), whose order among equal values is
\* not fixed (the default sort is not stable)
RECURSIVE SortDescending(_, _)
SortDescending(rows, column) ==
    IF rows = {} THEN {<<>>}
    ELSE UNION {
            {<<r>> \o rest : rest \in SortDescending(rows \ {r}, column)} :
            r \in {x \in rows : \A y \in rows : y[column] <= x[column]} }

\* the entries of a sequence, as a set
Range(seq) == {seq[i] : i \in DOMAIN seq}

\* sum of a column over a sequence of rows
RECURSIVE SumColumn(_, _)
SumColumn(rows, column) ==
    IF rows = <<>> THEN 0
    ELSE Head(rows)[column] + SumColumn(Tail(rows), column)

\* twice Series.median() of a column of a non-empty sequence of rows: the
\* middle value, or the sum of the two middle values of an even number
Median2(rows, column) ==
    LET sorted == CHOOSE s \in SortDescending(
                        {<<i, rows[i][column]>> : i \in DOMAIN rows}, 2) : TRUE
        n == Len(sorted)
    IN  IF n % 2 = 1 THEN 2 * sorted[(n + 1) \div 2][2]
        ELSE sorted[n \div 2][2] + sorted[n \div 2 + 1][2]

-----------------------------------------------------------------------------
(* load_data                                                               *)
(*                                                                         *)
(* A workbook on disk is [exists, primary_ok, rows, seen_ok, seen]:        *)
(* whether the file is there, whether the sheet 'Dashboard Cancel No Show' *)
(* reads with its seven columns, its rows, whether 'Patients Seen Report'  *)
(* reads, and its cells (a rectangular grid, label column first).          *)

\* Cells that are not a number: an empty cell, and text. A readable date-time
\* cell is its number of seconds (> 0), a numeric cell its value (>= 0).
Blank == -1

Text == -2

\* pd.to_datetime(cell, errors='coerce')
to_datetime(cell) == IF cell > 0 THEN cell ELSE NaT

\* pd.to_numeric(cell, errors='coerce') followed by fillna(0)
to_numeric(cell) == IF cell >= 0 THEN cell ELSE 0

\* the column selection and renaming, the three date conversions and the
\* 'Procedure Category' column, for one row of the sheet
NormalizeRow(raw) ==
    [appointment_date |-> to_datetime(raw.appt_date),
     type |-> raw.type,
     status |-> raw.status,
     created_by |-> raw.created_by,
     created_date |-> to_datetime(raw.created_datetime),
     canceled_by |-> raw.canceled_by,
     canceled_date |-> to_datetime(raw.canceled_datetime),
     procedure_category |-> categorize_procedure(raw.type)]

Normalize(rows) == [i \in DOMAIN rows |-> NormalizeRow(rows[i])]

\* dropna(how='all') on rows, dropna(axis=1, how='all') on columns, then the
\* sum of to_numeric over every column but the first that is left
PatientsSeenTotal(grid) ==
    LET kept_rows == SelectSeq(grid, LAMBDA row : \E j \in DOMAIN row : row[j] # Blank)
        width == IF grid = <<>> THEN 0 ELSE Len(grid[1])
        kept_cols == {j \in 1..width : \E i \in DOMAIN kept_rows : kept_rows[i][j] # Blank}
        numeric_cols == {j \in kept_cols : \E k \in kept_cols : k < j}
        RowSum(row) ==
            LET cells == SelectSeq([j \in 1..width |-> <<j, row[j]>>],
                                   LAMBDA c : c[1] \in numeric_cols)
            IN  SumColumn([n \in DOMAIN cells |-> <<to_numeric(cells[n][2])>>], 1)
    IN  SumColumn([i \in DOMAIN kept_rows |-> <<RowSum(kept_rows[i])>>], 1)

\* (variant: a failure of the second sheet reaches the outer handler)
load_body_SecondSheetFatal(wb) ==
    IF ~wb.exists \/ ~wb.primary_ok \/ ~wb.seen_ok
    THEN [data |-> <<>>, total_procedures |-> 0, message |-> "error"]
    ELSE [data |-> Normalize(wb.rows),
          total_procedures |-> PatientsSeenTotal(wb.seen),
          message |-> "none"]

\* The body of load_data, with the message it puts on the page.
load_body(wb) ==
    IF ~wb.exists
    THEN [data |-> <<>>, total_procedures |-> 0, message |-> "error"]
    ELSE IF ~wb.primary_ok
    THEN [data |-> <<>>, total_procedures |-> 0, message |-> "error"]
    ELSE IF ~wb.seen_ok
    THEN [data |-> Normalize(wb.rows), total_procedures |-> 0, message |-> "warning"]
    ELSE [data |-> Normalize(wb.rows),
          total_procedures |-> PatientsSeenTotal(wb.seen),
          message |-> "none"]

\* @st.cache_data on a function without parameters: the store has one entry,
\* keyed on the function alone; a call returns the entry when there is one and
\* runs the body, storing what it returns, when there is none.
load_data(store, wb) ==
    IF store # <<>> THEN store[1] ELSE load_body(wb)


-----------------------------------------------------------------------------
(* Tab 1: Cancelled/No-Show Overview                                       *)

\* groupby keys come out sorted; the category names in that order
CategoriesSorted ==
    <<"BONE DENSITY", "CARDIAC PET", "CT", "MAMMOGRAM", "MRI", "NCS",
      "NUCLEAR MEDICINE", "OPEN MRI", "OTHER", "PET/CT", "SLEEP STUDY", "US", "XRAY">>

\* (a count of every row of the category, as agg 'count' would give)
CancelledCountEveryRow(rows, c) ==
    CountIf(rows, LAMBDA r : r.procedure_category = c)

\* the aggregate `lambda x: (x == 'Cancelled').sum()` of one category's rows
CancelledCount(rows, c) ==
    CountIf(rows, LAMBDA r : r.procedure_category = c /\ IsCancelled(r))

\* filtered_data.groupby('Procedure Category').agg({'Status': ...}).reset_index():
\* one row per category present, by sorted key
CancelledByCategory(filtered) ==
    LET present == SelectSeq(CategoriesSorted,
                      LAMBDA c : \E i \in DOMAIN filtered : filtered[i].procedure_category = c)
    IN  [n \in 1..Len(present) |->
            [procedure_category |-> present[n],
             cancelled |-> CancelledCount(filtered, present[n])]]

\* proc_metrics['Cancellation Rate'] = (Cancelled / total_procedures * 100).round(1)
\* for total_procedures > 0
WithClinicRate(rows, total) ==
    {[procedure_category |-> r.procedure_category,
      cancelled |-> r.cancelled,
      cancellation_rate |-> RatePct(r.cancelled, total)] : r \in Range(rows)}

\* other_procedures.groupby('Type').agg({'Status': ['count', count of
\* 'Cancelled']}), with the local rate (Cancelled / Total * 100).round(1);
\* groupby drops a missing Type, and 'count' is the number of Status cells of
\* the group that are not blank
OtherBreakdown(other_procedures) ==
    LET types == {other_procedures[i].type : i \in DOMAIN other_procedures} \ {NaNCell}
        Total(t) == CountIf(other_procedures, LAMBDA r : r.type = t /\ r.status # NoStatus)
        Cancelled(t) == CountIf(other_procedures, LAMBDA r : r.type = t /\ IsCancelled(r))
    IN  {[procedure_type |-> t,
          total |-> Total(t),
          cancelled |-> Cancelled(t),
          cancellation_rate |-> GroupRatePct(Cancelled(t), Total(t))] : t \in types}

\* (variant: the median taken over the rows that pass the Total cutoff)
HighCancelRowsMedianAfterCutoff(other_types) ==
    LET kept == SelectSeq(other_types, LAMBDA r : r.total >= 5)
    IN  {r \in Range(kept) :
            2 * r.cancellation_rate > Median2(kept, "cancellation_rate")}

\* other_types[(Total >= 5) & (Cancellation Rate > Cancellation Rate.median())];
\* median() skips NaN, and a NaN rate is above nothing
HighCancelRows(other_types) ==
    LET rated == SelectSeq(other_types, LAMBDA r : r.cancellation_rate # NaNRate)
    IN  {r \in Range(rated) :
            /\ r.total >= 5
            /\ 2 * r.cancellation_rate > Median2(rated, "cancellation_rate")}

\* The OTHER Category Analysis block: every outcome of its two sorts.
OtherAnalysis(filtered) ==
    LET other_procedures == SelectSeq(filtered, LAMBDA r : r.procedure_category = "OTHER")
    IN  IF other_procedures = <<>>
        THEN {[shown |-> FALSE, other_types |-> <<>>, high_cancel |-> <<>>]}
        ELSE UNION {
                {[shown |-> TRUE, other_types |-> ot, high_cancel |-> hc] :
                    hc \in SortDescending(HighCancelRows(ot), "cancellation_rate")} :
                ot \in SortDescending(OtherBreakdown(other_procedures), "total") }

\* What a tab holds before the run reaches it.
NotRun == [status |-> "not run"]

\* The body of `with tab1:`. The result is every record the block can leave:
\* status "error" when the block raises, with what it had computed by then.
\* `0 .round(1)` raises AttributeError: a Python int has no round method.
Tab1Outcomes(d, total, widget) ==
    LET dates == date_input(widget, d)
        filtered == FilterByDate(d, dates[1], dates[2])
        counts == CancelledByCategory(filtered)
    IN  IF total > 0
        THEN UNION {
                {[status |-> "ok",
                  dates |-> dates,
                  filtered_data |-> filtered,
                  proc_metrics |-> pm,
                  rate_denominator |-> total,
                  metric_total |-> total,
                  metric_cancellations |-> SumColumn(pm, "cancelled"),
                  other |-> oa] : oa \in OtherAnalysis(filtered)} :
                pm \in SortDescending(WithClinicRate(counts, total), "cancellation_rate") }
        ELSE {[status |-> "error",
               dates |-> dates,
               filtered_data |-> filtered,
               proc_metrics |-> counts]}

-----------------------------------------------------------------------------
(* Tab 2: Employee Analysis                                                *)

\* A selectbox with no options returns None.
NoEmployee == "<None>"

\* A blank 'Canceled By' cell (NaN); groupby leaves such a key out.
NaNText == "<NaN>"

\* cancellation_rate of the employee detail: cancelled / total * 100, not
\* rounded, held as a fraction; 0 when the employee has no records
LocalRate(cancelled, total) ==
    IF total > 0 THEN [num |-> cancelled * 100, den |-> total]
    ELSE [num |-> 0, den |-> 1]

\* employee_data.groupby('Procedure Category').agg({'Status': ['count', count
\* of 'Cancelled']}) with the local rate, one row per category by sorted key;
\* 'count' is the number of Status cells of the group that are not blank
CancelByType(employee_data) ==
    LET present == SelectSeq(CategoriesSorted,
                      LAMBDA c : \E i \in DOMAIN employee_data :
                                    employee_data[i].procedure_category = c)
        Total(c) == CountIf(employee_data,
                        LAMBDA r : r.procedure_category = c /\ r.status # NoStatus)
    IN  [n \in 1..Len(present) |->
            [procedure_category |-> present[n],
             total |-> Total(present[n]),
             cancelled |-> CancelledCount(employee_data, present[n]),
             cancellation_rate |->
                 GroupRatePct(CancelledCount(employee_data, present[n]), Total(present[n]))]]

\* The body of `with tab2:` for one choice in the selectbox; total_procedures
\* in the result is the value the block assigns to the global of that name.
Tab2For(d, widget, selected_employee) ==
    LET dates == date_input(widget, d)
        filtered == FilterByDate(d, dates[1], dates[2])
        employees == {filtered[i].created_by : i \in DOMAIN filtered}
        employee_data == SelectSeq(filtered, LAMBDA r : r.created_by = selected_employee)
        cancelled_procedures == CountIf(employee_data, IsCancelled)
    IN  [status |-> "ok",
         dates |-> dates,
         filtered_data |-> filtered,
         employee_total |->
             [e \in employees |-> CountIf(filtered, LAMBDA r : r.created_by = e)],
         heatmap_data |->
             [e \in employees |->
                 [c \in {filtered[i].procedure_category : i \in DOMAIN filtered} |->
                     CountIf(filtered, LAMBDA r : r.created_by = e
                                                  /\ r.procedure_category = c)]],
         selected_employee |-> selected_employee,
         employee_data |-> employee_data,
         total_procedures |-> Len(employee_data),
         cancelled_procedures |-> cancelled_procedures,
         rate_denominator |-> Len(employee_data),
         cancellation_rate |-> LocalRate(cancelled_procedures, Len(employee_data)),
         cancel_by_type |-> CancelByType(employee_data)]

\* the options of the selectbox: sorted(filtered_data['Created By'].unique())
Tab2Employees(d, widget) ==
    LET dates == date_input(widget, d)
        filtered == FilterByDate(d, dates[1], dates[2])
    IN  {filtered[i].created_by : i \in DOMAIN filtered}

Tab2Outcomes(d, widget) ==
    IF Tab2Employees(d, widget) = {}
    THEN {Tab2For(d, widget, NoEmployee)}
    ELSE {Tab2For(d, widget, e) : e \in Tab2Employees(d, widget)}

-----------------------------------------------------------------------------
(* Tab 3: Cancellation Timing                                              *)

\* bins = [0, 0.1667, 1, 5, 24, inf] in hours, here in 1/10000 of an hour;
\* the last edge, infinity, is above every value
bins == <<0, 1667, 10000, 50000, 240000>>

labels == <<"<10 mins", "10m-1h", "1-5h", "5-24h", ">24h">>

\* pd.cut's result for a value in no interval
NoCategory == "<NaN>"

\* elapsed seconds / 3600 compared with an edge, in 1/10000 of an hour
AboveEdge(seconds, k) == seconds * 10000 > bins[k] * 3600

\* pd.cut(hours, bins=bins, labels=labels): the intervals are open on the left
\* and closed on the right, (bins[k], bins[k+1]]
cut(seconds) ==
    IF ~AboveEdge(seconds, 1) THEN NoCategory
    ELSE labels[CHOOSE k \in 1..Len(labels) :
            /\ AboveEdge(seconds, k)
            /\ (k < Len(bins) => ~AboveEdge(seconds, k + 1))]

\* The body of `with tab3:`. Times stay in seconds; the page shows hours.
Tab3Outcome(d) ==
    LET cancelled_data == SelectSeq(d, IsCancelled)
        \* the subtraction is NaN when either date is missing; dropna removes it
        timed == SelectSeq(cancelled_data,
                     LAMBDA r : r.created_date # NaT /\ r.canceled_date # NaT)
        rows == [i \in DOMAIN timed |->
                    [record |-> timed[i],
                     time_to_cancellation |-> timed[i].canceled_date - timed[i].created_date,
                     time_category |-> cut(timed[i].canceled_date - timed[i].created_date)]]
    IN  IF cancelled_data = <<>>
        THEN [status |-> "ok", shown |-> "No cancelled appointments found.",
              cancelled_data |-> <<>>]
        ELSE IF timed = <<>>
        THEN [status |-> "ok", shown |-> "No valid time differences found in cancellations.",
              cancelled_data |-> <<>>]
        ELSE [status |-> "ok", shown |-> "chart",
              cancelled_data |-> rows,
              bucket_counts |->
                  [l \in Range(labels) |-> CountIf(rows, LAMBDA r : r.time_category = l)],
              sum_seconds |-> SumColumn(rows, "time_to_cancellation"),
              median2_seconds |-> Median2(rows, "time_to_cancellation"),
              max_seconds |-> (CHOOSE s \in SortDescending(Range(rows),
                                  "time_to_cancellation") : TRUE)[1].time_to_cancellation]

-----------------------------------------------------------------------------
(* Tab 4: Employee Cancellations                                           *)

\* sort_values(column, ascending=True): every arrangement in non-decreasing order
RECURSIVE SortAscending(_, _)
SortAscending(rows, column) ==
    IF rows = {} THEN {<<>>}
    ELSE UNION {
            {<<r>> \o rest : rest \in SortAscending(rows \ {r}, column)} :
            r \in {x \in rows : \A y \in rows : x[column] <= y[column]} }

\* filtered_data[Status == 'Cancelled'].groupby('Canceled By').agg(count,
\* number of distinct categories)
CancelMetrics(filtered) ==
    LET cancelled == SelectSeq(filtered, IsCancelled)
        employees == {cancelled[i].canceled_by : i \in DOMAIN cancelled} \ {NaNText}
    IN  {[employee |-> e,
          cancellations |-> CountIf(cancelled, LAMBDA r : r.canceled_by = e),
          unique_procedures |->
              Cardinality({cancelled[i].procedure_category :
                              i \in {j \in DOMAIN cancelled : cancelled[j].canceled_by = e}})] :
         e \in employees}

\* The body of `with tab4:`: every outcome of the sort and of the selectbox.
Tab4Outcomes(d, widget) ==
    LET dates == date_input(widget, d)
        filtered == FilterByDate(d, dates[1], dates[2])
        metrics == CancelMetrics(filtered)
        options == IF metrics = {} THEN {NoEmployee} ELSE {r.employee : r \in metrics}
    IN  UNION {
            {[status |-> "ok",
              dates |-> dates,
              filtered_data |-> filtered,
              cancel_metrics |-> cm,
              total_cancellations |-> SumColumn(cm, "cancellations"),
              selected_employee |-> e,
              employee_cancellations |->
                  SelectSeq(filtered, LAMBDA r : IsCancelled(r) /\ r.canceled_by = e)] :
             e \in options} :
            cm \in SortAscending(metrics, "cancellations") }

-----------------------------------------------------------------------------
(* The script: one run executes its sections from the top                  *)

\* The sections in the order the file has them: line 85 (load_data and the
\* empty check), line 92 (the header metric), then the four `with tab` blocks.
ScriptOrder == <<"load", "header", "tab1", "tab2", "tab3", "tab4">>

\* (variant: the tab 2 block placed above the tab 1 block)
NextSection_Tab2First(section) ==
    LET order == <<"load", "header", "tab2", "tab1", "tab3", "tab4">>
        n == CHOOSE i \in 1..Len(order) : order[i] = section
    IN  IF n = Len(order) THEN "done" ELSE order[n + 1]

\* the section that follows one that completed, "done" after the last
NextSection(section) ==
    LET n == CHOOSE i \in 1..Len(ScriptOrder) : ScriptOrder[i] = section
    IN  IF n = Len(ScriptOrder) THEN "done" ELSE ScriptOrder[n + 1]

\* the run is over: it completed, st.stop() ended it, or an exception did
Finished == pc \in {"done", "stopped", "error"}

\* A name that is not bound yet in this run's namespace.
Unbound == -1

\* (variant: an emptiness test that never answers True)
DataEmpty_Never(d) == FALSE

\* `data.empty`
DataEmpty(d) == d = <<>>

\* A new run starts with a fresh namespace; the cache and the session's
\* widget values are all it inherits.
StartRun ==
    /\ pc' = "load"
    /\ data' = <<>>
    /\ total_procedures' = Unbound
    /\ header' = NotRun
    /\ tab1' = NotRun
    /\ tab2' = NotRun
    /\ tab3' = NotRun
    /\ tab4' = NotRun

\* Lines 85-89: data, total_procedures = load_data(); st.stop() when empty.
\* `header` also keeps what the call was made on and what it returned.
Load ==
    /\ pc = "load"
    /\ LET result == load_data(cache, workbook) IN
        /\ cache' = <<result>>
        /\ data' = result.data
        /\ total_procedures' = result.total_procedures
        /\ header' = [status |-> "loaded",
                      from_cache |-> cache # <<>>,
                      source |-> workbook,
                      returned |-> result]
        /\ pc' = IF DataEmpty(result.data) THEN "stopped" ELSE NextSection("load")
    /\ UNCHANGED <<classifyVars, workbook, widgetVars, tab1, tab2, tab3, tab4>>

\* Line 92: st.metric("Total Procedures Performed", int(total_procedures)).
Header ==
    /\ pc = "header"
    /\ header' = [status |-> "ok",
                  from_cache |-> header.from_cache,
                  source |-> header.source,
                  returned |-> header.returned,
                  metric_total |-> total_procedures]
    /\ pc' = NextSection("header")
    /\ UNCHANGED <<classifyVars, sourceVars, widgetVars, data, total_procedures,
                   tab1, tab2, tab3, tab4>>

\* Lines 103-279.
Tab1 ==
    /\ pc = "tab1"
    /\ \E outcome \in Tab1Outcomes(data, total_procedures, tab1_dates) :
        /\ tab1' = outcome
        /\ pc' = IF outcome.status = "error" THEN "error" ELSE NextSection("tab1")
    /\ UNCHANGED <<classifyVars, sourceVars, widgetVars, data, total_procedures,
                   header, tab2, tab3, tab4>>

\* Lines 282-403; line 359 assigns the global total_procedures.
Tab2 ==
    /\ pc = "tab2"
    /\ \E outcome \in Tab2Outcomes(data, tab2_dates) :
        /\ tab2' = outcome
        /\ total_procedures' = outcome.total_procedures
    /\ pc' = NextSection("tab2")
    /\ UNCHANGED <<classifyVars, sourceVars, widgetVars, data, header, tab1, tab3, tab4>>

\* Lines 406-450.
Tab3 ==
    /\ pc = "tab3"
    /\ tab3' = Tab3Outcome(data)
    /\ pc' = NextSection("tab3")
    /\ UNCHANGED <<classifyVars, sourceVars, widgetVars, data, total_procedures,
                   header, tab1, tab2, tab4>>

\* Lines 453-551.
Tab4 ==
    /\ pc = "tab4"
    /\ \E outcome \in Tab4Outcomes(data, tab4_dates) :
        tab4' = outcome
    /\ pc' = NextSection("tab4")
    /\ UNCHANGED <<classifyVars, sourceVars, widgetVars, data, total_procedures,
                   header, tab1, tab2, tab3>>

-----------------------------------------------------------------------------
(* The user and the file system                                            *)

\* Days a date range can be picked from, and the ranges.
Days == {1, 2}

DateRanges == {range \in Days \X Days : range[1] <= range[2]}

\* The user picks a range in one of the three date inputs: the session keeps
\* it under the widget's key and the script is run again.
PickDates ==
    /\ Finished
    /\ \E range \in DateRanges :
        \/ tab1_dates' = range /\ UNCHANGED <<tab2_dates, tab4_dates>>
        \/ tab2_dates' = range /\ UNCHANGED <<tab1_dates, tab4_dates>>
        \/ tab4_dates' = range /\ UNCHANGED <<tab1_dates, tab2_dates>>
    /\ StartRun
    /\ UNCHANGED <<classifyVars, sourceVars>>

\* Any other interaction (a selectbox, the Rerun command) runs the script
\* again with the session as it is.
Rerun ==
    /\ Finished
    /\ StartRun
    /\ UNCHANGED <<classifyVars, sourceVars, widgetVars>>

\* A page opened anew is a new session: no widget has a value, the cache is
\* the server's and stays.
NewSession ==
    /\ Finished
    /\ tab1_dates' = <<>>
    /\ tab2_dates' = <<>>
    /\ tab4_dates' = <<>>
    /\ StartRun
    /\ UNCHANGED <<classifyVars, sourceVars>>

-----------------------------------------------------------------------------
(* Workbooks the file can be                                               *)

MriBrain == <<"M","r","i"," ","B","r","a","i","n">>

OpenMriKnee == <<"o","p","e","n"," ","m","r","i"," ","k","n","e","e">>

Ekg == <<"E","K","G">>

\* day 1 09:00 and day 2 14:00, in seconds
Day1Morning == 1 * 86400 + 9 * 3600

Day2Afternoon == 2 * 86400 + 14 * 3600

RowMriCancelled ==
    [appt_date |-> Day1Morning, type |-> MriBrain, status |-> "Cancelled",
     created_by |-> "alice", created_datetime |-> 86400 + 600,
     canceled_by |-> "bob", canceled_datetime |-> 86400 + 600 + 300]

RowEkgNoShow ==
    [appt_date |-> Day2Afternoon, type |-> Ekg, status |-> "No Show",
     created_by |-> "alice", created_datetime |-> 86400 + 1200,
     canceled_by |-> NaNText, canceled_datetime |-> Blank]

RowOpenMriUndated ==
    [appt_date |-> Text, type |-> OpenMriKnee, status |-> "Cancelled",
     created_by |-> "bob", created_datetime |-> Blank,
     canceled_by |-> "bob", canceled_datetime |-> 86400 + 7200]

RowEkgCancelledAtOnce ==
    [appt_date |-> Day2Afternoon, type |-> Ekg, status |-> "Cancelled",
     created_by |-> "bob", created_datetime |-> 86400 + 1800,
     canceled_by |-> "alice", canceled_datetime |-> 86400 + 1800]

SheetPool ==
    { <<>>,
      <<RowMriCancelled, RowEkgNoShow>>,
      <<RowEkgCancelledAtOnce, RowOpenMriUndated, RowMriCancelled>> }

\* Patients Seen grids: one that sums to 7 (a text cell and an empty row
\* among the numbers) and one whose numeric region sums to 0
GridPool ==
    { << <<Text, 3, 2>>, <<Blank, Blank, Blank>>, <<Text, Text, 2>> >>,
      << <<Text, Blank, Text>>, <<Text, 0, Blank>> >> }

MissingFile ==
    [exists |-> FALSE, primary_ok |-> FALSE, rows |-> <<>>, seen_ok |-> FALSE, seen |-> <<>>]

Workbooks ==
    {MissingFile}
    \cup {[exists |-> TRUE, primary_ok |-> FALSE, rows |-> <<>>,
           seen_ok |-> TRUE, seen |-> g] : g \in GridPool}
    \cup {[exists |-> TRUE, primary_ok |-> TRUE, rows |-> rs,
           seen_ok |-> TRUE, seen |-> g] : rs \in SheetPool, g \in GridPool}
    \cup {[exists |-> TRUE, primary_ok |-> TRUE, rows |-> rs,
           seen_ok |-> FALSE, seen |-> <<>>] : rs \in SheetPool}

\* The file is put in place, replaced, damaged or removed between two runs.
ReplaceWorkbook ==
    /\ Finished
    /\ \E wb \in Workbooks \ {workbook} : workbook' = wb
    /\ UNCHANGED <<classifyVars, cache, widgetVars, runVars>>

-----------------------------------------------------------------------------
(* Specification of the application                                        *)

ClassifierIdle ==
    /\ procedure_type = <<>>
    /\ category = NoResult

Init ==
    /\ ClassifierIdle
    /\ workbook \in Workbooks
    /\ cache = <<>>
    /\ tab1_dates = <<>>
    /\ tab2_dates = <<>>
    /\ tab4_dates = <<>>
    /\ pc = "load"
    /\ data = <<>>
    /\ total_procedures = Unbound
    /\ header = NotRun
    /\ tab1 = NotRun
    /\ tab2 = NotRun
    /\ tab3 = NotRun
    /\ tab4 = NotRun

Next ==
    \/ Load
    \/ Header
    \/ Tab1
    \/ Tab2
    \/ Tab3
    \/ Tab4
    \/ PickDates
    \/ Rerun
    \/ NewSession
    \/ ReplaceWorkbook

Spec == Init /\ [][Next]_vars

-----------------------------------------------------------------------------
(* Inputs of the classifier check                                          *)

KeywordsOf(i) == {categories[i].keywords[j] : j \in 1..Len(categories[i].keywords)}

AllKeywords == UNION {KeywordsOf(i) : i \in 1..Len(categories)}

ExtraTypes ==
    { <<>>,
      NaNCell,
      <<"U","N","K","N","O","W","N"," ","P","R","O","C">>,
      <<"O","P","E","N"," ","M","R","I"," ","S","C","A","N">>,
      <<"o","p","e","n"," ","m","r","i"," ","k","n","e","e">>,
      <<"M","r","i"," ","B","r","a","i","n">>,
      <<"E","K","G">>,
      <<"S","T","R","E","S","S"," ","T","E","S","T">> }

\* every keyword, every keyword in lower case, every two keywords side by side
TypeInputs ==
    AllKeywords
    \cup {lower(k) : k \in AllKeywords}
    \cup {k1 \o <<" ">> \o lower(k2) : k1 \in AllKeywords, k2 \in AllKeywords}
    \cup ExtraTypes

-----------------------------------------------------------------------------
(* Specification of the classifier alone                                   *)

\* The application's variables, at rest while a function is checked alone.
PipelineIdle ==
    /\ workbook = MissingFile
    /\ cache = <<>>
    /\ tab1_dates = <<>>
    /\ tab2_dates = <<>>
    /\ tab4_dates = <<>>
    /\ pc = "done"
    /\ data = <<>>
    /\ total_procedures = Unbound
    /\ header = NotRun
    /\ tab1 = NotRun
    /\ tab2 = NotRun
    /\ tab3 = NotRun
    /\ tab4 = NotRun

InitClassify ==
    /\ procedure_type \in TypeInputs
    /\ category = NoResult
    /\ PipelineIdle

Classify ==
    /\ category = NoResult
    /\ category' = categorize_procedure(procedure_type)
    /\ UNCHANGED <<procedure_type, sourceVars, widgetVars, runVars>>

NextClassify == Classify

SpecClassify == InitClassify /\ [][NextClassify]_vars

-----------------------------------------------------------------------------
(* Specification of tab 1 alone, over every small record set               *)

\* Longest record set of this specification.
MaxRows == 3

\* every sequence over S of length 1 to n
SeqsUpTo(S, n) == UNION {[1..k -> S] : k \in 1..n}

RowMriCanceledOneL ==
    [appt_date |-> Day1Morning, type |-> MriBrain, status |-> "Canceled",
     created_by |-> "alice", created_datetime |-> 86400 + 600,
     canceled_by |-> "bob", canceled_datetime |-> 86400 + 900]

Tab1RowPool ==
    {[appt_date |-> a, type |-> t, status |-> st,
      created_by |-> "alice", created_datetime |-> 86400 + 600,
      canceled_by |-> "bob", canceled_datetime |-> 86400 + 900] :
        a \in {Day1Morning, Day2Afternoon},
        t \in {MriBrain, Ekg},
        st \in {"Cancelled", "No Show"}}
    \cup {RowOpenMriUndated, RowMriCanceledOneL}

\* Loaded record sets: a run reaches tab 1 only with a non-empty set, and the
\* sets here have an appointment date in at least one row.
Tab1Data ==
    {Normalize(rows) :
        rows \in {x \in SeqsUpTo(Tab1RowPool, MaxRows) :
                    \E i \in DOMAIN x : x[i].appt_date > 0}}

\* The variables a view on its own does not use.
ViewIdle ==
    /\ ClassifierIdle
    /\ workbook = MissingFile
    /\ cache = <<>>
    /\ tab2_dates = <<>>
    /\ tab4_dates = <<>>
    /\ header = NotRun
    /\ tab2 = NotRun
    /\ tab4 = NotRun

InitTab1 ==
    /\ ViewIdle
    /\ data \in Tab1Data
    /\ total_procedures \in {0, 3}
    /\ tab1_dates \in DateRanges \cup {<<>>}
    /\ pc = "tab1"
    /\ tab1 = NotRun
    /\ tab3 = NotRun

NextTab1 == Tab1

SpecTab1 == InitTab1 /\ [][NextTab1]_vars

-----------------------------------------------------------------------------
(* Specification of tab 1 over OTHER breakdowns with larger groups         *)

\* Most appointments of one procedure type.
MaxTotal == 5

Eeg == <<"E","E","G">>

StressTest == <<"S","T","R","E","S","S"," ","T","E","S","T">>

OtherTypeNames == <<Ekg, Eeg, StressTest>>

\* `total` loaded appointments of one type on day 1, the first `cancelled`
\* of them cancelled
AppointmentsOf(t, total, cancelled) ==
    LET Row(st) ==
            NormalizeRow([appt_date |-> Day1Morning, type |-> t, status |-> st,
                          created_by |-> "alice", created_datetime |-> 86400 + 600,
                          canceled_by |-> "bob", canceled_datetime |-> 86400 + 900])
        was_cancelled == Row("Cancelled")
        no_show == Row("No Show")
    IN  [i \in 1..total |-> IF i <= cancelled THEN was_cancelled ELSE no_show]

GroupSizes == {g \in (0..MaxTotal) \X (0..MaxTotal) : g[2] <= g[1]}

OtherData ==
    {AppointmentsOf(OtherTypeNames[1], sizes[1][1], sizes[1][2])
        \o AppointmentsOf(OtherTypeNames[2], sizes[2][1], sizes[2][2])
        \o AppointmentsOf(OtherTypeNames[3], sizes[3][1], sizes[3][2]) :
     sizes \in {s \in [1..Len(OtherTypeNames) -> GroupSizes] :
                  \E n \in DOMAIN s : s[n][1] > 0}}

InitOther ==
    /\ ViewIdle
    /\ data \in OtherData
    /\ total_procedures = 40
    /\ tab1_dates = <<>>
    /\ pc = "tab1"
    /\ tab1 = NotRun
    /\ tab3 = NotRun

NextOther == Tab1

SpecOther == InitOther /\ [][NextOther]_vars

-----------------------------------------------------------------------------
(* Specification of tab 3 alone, over elapsed times around every edge      *)

\* Longest record set of this specification.
MaxTimed == 2

\* seconds from creation to cancellation: before creation, none, 5 minutes,
\* 2 hours, and each edge with the second after it
ElapsedPool == {-60, 0, 300, 600, 601, 3600, 3601, 7200, 18000, 18001, 86400, 86401}

TimingRowPool ==
    {[appt_date |-> Day1Morning, type |-> MriBrain, status |-> "Cancelled",
      created_by |-> "alice", created_datetime |-> c,
      canceled_by |-> "bob", canceled_datetime |-> x] :
        c \in {Blank, 86400 + 600},
        x \in {Blank} \cup {86400 + 600 + e : e \in ElapsedPool}}
    \cup {RowEkgNoShow}

InitTiming ==
    /\ ViewIdle
    /\ data \in {Normalize(rows) : rows \in SeqsUpTo(TimingRowPool, MaxTimed)}
    /\ total_procedures = 40
    /\ tab1_dates = <<>>
    /\ pc = "tab3"
    /\ tab1 = NotRun
    /\ tab3 = NotRun

NextTiming == Tab3

SpecTiming == InitTiming /\ [][NextTiming]_vars

-----------------------------------------------------------------------------
(* Specification of tabs 1 and 2 over record sets with blank Status cells  *)

\* Longest record set of this specification.
MaxRated == 2

\* Rows of two days, of an OTHER type and an MRI type, by two employees, with
\* the Status cell 'Cancelled', 'No Show' or blank.
RatedRowPool ==
    {[appt_date |-> a, type |-> tc[1], status |-> st,
      created_by |-> tc[2], created_datetime |-> 86400 + 600,
      canceled_by |-> "bob", canceled_datetime |-> 86400 + 900] :
        a \in {Day1Morning, Day2Afternoon},
        tc \in {<<Ekg, "alice">>, <<Ekg, "bob">>, <<MriBrain, "alice">>},
        st \in {"Cancelled", "No Show", NoStatus}}

InitRates ==
    /\ ClassifierIdle
    /\ workbook = MissingFile
    /\ cache = <<>>
    /\ header = NotRun
    /\ data \in {Normalize(rows) : rows \in SeqsUpTo(RatedRowPool, MaxRated)}
    /\ total_procedures = 40
    /\ tab1_dates \in {<<>>, <<1, 1>>}
    /\ tab2_dates \in {<<>>, <<2, 2>>}
    /\ tab4_dates = <<>>
    /\ pc = "tab1"
    /\ tab1 = NotRun
    /\ tab2 = NotRun
    /\ tab3 = NotRun
    /\ tab4 = NotRun

\* Tabs 1 and 2 in the order of the script; the run is followed up to the end
\* of tab 2.
NextRates ==
    \/ Tab1
    \/ Tab2

SpecRates == InitRates /\ [][NextRates]_vars

-----------------------------------------------------------------------------
(* Claims about the classifier                                             *)

\* C1: once categorize_procedure has returned, whenever its argument is a
\* keyword of the table, or that keyword in lower case, the returned value is
\* the category the keyword is listed under.
C1_KeywordReturnsOwnCategory ==
    \A i \in 1..Len(categories) : \A k \in KeywordsOf(i) :
        (category # NoResult /\ procedure_type \in {k, lower(k)})
            => category = categories[i].category

\* The order of precedence the classifier is specified with.
CategoryOrder ==
    <<"OPEN MRI", "US", "CT", "SLEEP STUDY", "MRI", "PET/CT", "XRAY",
      "MAMMOGRAM", "NCS", "BONE DENSITY", "NUCLEAR MEDICINE", "CARDIAC PET">>

CategoryValues == {CategoryOrder[n] : n \in 1..Len(CategoryOrder)} \cup {"OTHER"}

\* some keyword listed under the category named c occurs in text
KeywordOfCategoryIn(c, text) ==
    \E i \in 1..Len(categories) :
        /\ categories[i].category = c
        /\ \E k \in KeywordsOf(i) : Contains(text, k)

FirstInOrder(text) ==
    IF \E n \in 1..Len(CategoryOrder) : KeywordOfCategoryIn(CategoryOrder[n], text)
    THEN CategoryOrder[CHOOSE n \in 1..Len(CategoryOrder) :
            /\ KeywordOfCategoryIn(CategoryOrder[n], text)
            /\ \A m \in 1..(n - 1) : ~KeywordOfCategoryIn(CategoryOrder[m], text)]
    ELSE "OTHER"

\* C2: the returned value is the first category of the fixed order that has a
\* keyword inside the upper-cased argument, OTHER exactly when no category has
\* one; it is one of the 13 values, and an argument containing 'OPEN MRI' is
\* never returned as MRI.
C2_FirstCategoryInOrderWins ==
    category # NoResult =>
        LET text == upper(str(procedure_type)) IN
        /\ category = FirstInOrder(text)
        /\ category \in CategoryValues
        /\ (category = "OTHER") <=>
               (\A n \in 1..Len(CategoryOrder) : ~KeywordOfCategoryIn(CategoryOrder[n], text))
        /\ Contains(str(procedure_type), <<"O","P","E","N"," ","M","R","I">>)
               => category # "MRI"

\* C2 witness: 'OPEN MRI SCAN', which holds keywords of OPEN MRI and of MRI,
\* has been classified, as OPEN MRI.
C2_Witness ==
    /\ procedure_type = <<"O","P","E","N"," ","M","R","I"," ","S","C","A","N">>
    /\ Contains(upper(str(procedure_type)), <<"M","R","I">>)
    /\ category = "OPEN MRI"

-----------------------------------------------------------------------------
(* Claims about the loader and the run                                     *)

\* the call of this run was made on a file whose primary sheet cannot be had
PrimaryUnavailable == ~header.source.exists \/ ~header.source.primary_ok

NoViewComputed ==
    /\ header.status # "ok"
    /\ tab1 = NotRun
    /\ tab2 = NotRun
    /\ tab3 = NotRun
    /\ tab4 = NotRun

\* C3: in a run whose loader total is 0 and whose record set is not empty,
\* once tab 1 has run it has completed without error and every row of its
\* per-category table has the rate 0.
C3_ZeroTotalGivesZeroRates ==
    (tab1 # NotRun
        /\ header.returned.total_procedures = 0
        /\ header.returned.data # <<>>)
    =>  /\ tab1.status = "ok"
        /\ \A i \in DOMAIN tab1.proc_metrics : tab1.proc_metrics[i].cancellation_rate = 0

\* C5: a run in which load_data executes on a missing file or an unreadable
\* primary sheet gets the empty record set and the total 0 from it, and a run
\* that got an empty record set is stopped with the header metric and all
\* four tabs not computed.
C5_UnavailablePrimaryHaltsTheRun ==
    /\ (header # NotRun /\ ~header.from_cache /\ PrimaryUnavailable)
        => /\ header.returned.data = <<>>
           /\ header.returned.total_procedures = 0
           /\ data = <<>>
           /\ total_procedures = 0
    /\ (header # NotRun /\ header.returned.data = <<>>)
        => /\ pc = "stopped"
           /\ NoViewComputed

\* C5 witness: load_data has executed on a file that is there but whose
\* primary sheet does not read, and the run has been stopped.
C5_Witness ==
    /\ header # NotRun
    /\ ~header.from_cache
    /\ header.source.exists
    /\ ~header.source.primary_ok
    /\ pc = "stopped"

\* C6: a run in which load_data executes on a readable primary sheet and a
\* failing Patients Seen sheet gets the total 0 and the very records the same
\* workbook gives when its Patients Seen sheet reads, whatever that sheet holds.
C6_SecondSheetFailureKeepsRecords ==
    (header # NotRun /\ ~header.from_cache
        /\ header.source.exists /\ header.source.primary_ok /\ ~header.source.seen_ok)
    =>  /\ header.returned.total_procedures = 0
        /\ data = header.returned.data
        /\ \A g \in GridPool :
            header.returned.data =
                load_body([header.source EXCEPT !.seen_ok = TRUE, !.seen = g]).data
        /\ header.returned.data = Normalize(header.source.rows)

\* C6 witness: such a call has returned a non-empty record set.
C6_Witness ==
    /\ header # NotRun
    /\ ~header.from_cache
    /\ header.source.primary_ok
    /\ ~header.source.seen_ok
    /\ Len(data) = 3
    /\ header.returned.total_procedures = 0

\* C7: in every run load_data returns the result of loading the source as it
\* is at the call: the records and the total of the current file, not those
\* cached for an earlier one.
C7_LoaderResultFollowsSource ==
    header # NotRun =>
        /\ header.returned.data = load_body(header.source).data
        /\ header.returned.total_procedures = load_body(header.source).total_procedures

\* what load_data can return for the workbooks of the pool
LoaderResults == {load_body(wb) : wb \in Workbooks}

\* C10: the header metric, the tab 1 metric and the denominator of the tab 1
\* rate are the total load_data returned in this run, which is a total of a
\* workbook; the denominator of the tab 2 employee rate is the number of
\* records of the selected employee in tab 2's date range; this in every run,
\* the first and those after tab 2 has assigned total_procedures.
C10_ClinicAndLocalDenominatorsStayApart ==
    /\ header # NotRun
        => /\ header.returned \in LoaderResults
           /\ cache = <<header.returned>>
    /\ (header # NotRun /\ header.status = "ok")
        => header.metric_total = header.returned.total_procedures
    /\ (tab1 # NotRun /\ tab1.status = "ok")
        => /\ tab1.rate_denominator = header.returned.total_procedures
           /\ tab1.metric_total = header.returned.total_procedures
    /\ tab2 # NotRun
        => tab2.rate_denominator =
             Cardinality({i \in DOMAIN data :
                /\ data[i].created_by = tab2.selected_employee
                /\ data[i].appointment_date # NaT
                /\ tab2_dates # <<>> =>
                      /\ DateOf(data[i].appointment_date) >= tab2_dates[1]
                      /\ DateOf(data[i].appointment_date) <= tab2_dates[2]})

\* C10 witness: a later run, served from the cache, in which tab 1 has used
\* the clinic-wide total and tab 2 has then assigned a different number to
\* total_procedures.
C10_Witness ==
    /\ header # NotRun
    /\ header.from_cache
    /\ tab1 # NotRun
    /\ tab1.status = "ok"
    /\ tab2 # NotRun
    /\ tab2.rate_denominator # tab1.rate_denominator
    /\ total_procedures = tab2.rate_denominator
    /\ total_procedures # header.metric_total

-----------------------------------------------------------------------------
(* Claims about tab 1                                                      *)

\* the record is in the date range selected in tab 1 (all dated records when
\* no range has been picked, which is the default range)
InTab1Selection(r) ==
    /\ r.appointment_date # NaT
    /\ tab1_dates # <<>> =>
          /\ DateOf(r.appointment_date) >= tab1_dates[1]
          /\ DateOf(r.appointment_date) <= tab1_dates[2]

\* C4: once tab 1 has built its per-category table, the Cancelled column sums
\* to the number of records in the selected date range whose status is
\* exactly 'Cancelled'.
C4_CancelledColumnSumsToCancelledRecords ==
    tab1 # NotRun =>
        SumColumn(tab1.proc_metrics, "cancelled") =
            Cardinality({i \in DOMAIN data :
                InTab1Selection(data[i]) /\ data[i].status = "Cancelled"})

\* C4 witness: the table has two categories and a cancellation, the range
\* holds a record that is not cancelled, and a cancelled record lies outside
\* the picked range.
C4_Witness ==
    /\ tab1 # NotRun
    /\ tab1.status = "ok"
    /\ tab1_dates # <<>>
    /\ Len(tab1.proc_metrics) = 2
    /\ SumColumn(tab1.proc_metrics, "cancelled") >= 1
    /\ \E i \in DOMAIN tab1.filtered_data : tab1.filtered_data[i].status = "No Show"
    /\ \E i \in DOMAIN data : data[i].status = "Cancelled" /\ ~InTab1Selection(data[i])

\* the k-th smallest entry of a non-empty sequence of numbers
KthSmallest(values, k) ==
    CHOOSE x \in Range(values) :
        /\ Cardinality({i \in DOMAIN values : values[i] < x}) < k
        /\ k <= Cardinality({i \in DOMAIN values : values[i] <= x})

\* twice the median of the rates of all rows of a breakdown
TwiceMedianRate(breakdown) ==
    LET rates == [i \in DOMAIN breakdown |-> breakdown[i].cancellation_rate]
        n == Len(rates)
    IN  KthSmallest(rates, (n + 1) \div 2) + KthSmallest(rates, n \div 2 + 1)

\* C8: the breakdown has one row for each OTHER procedure type, and every row
\* of the high-cancellation subset is a row of the breakdown with Total >= 5
\* and a rate strictly above the median of the rates of all rows of the
\* breakdown, those with Total < 5 included.
C8_HighCancelAboveMedianOfAllRows ==
    (tab1 # NotRun /\ tab1.status = "ok" /\ tab1.other.shown) =>
        LET breakdown == tab1.other.other_types
            high_cancel == tab1.other.high_cancel
        IN  /\ Len(breakdown) =
                 Cardinality({tab1.filtered_data[i].type : i \in
                    {j \in DOMAIN tab1.filtered_data :
                        tab1.filtered_data[j].procedure_category = "OTHER"}} \ {NaNCell})
            /\ \A i \in DOMAIN high_cancel :
                /\ high_cancel[i] \in Range(breakdown)
                /\ high_cancel[i].total >= 5
                /\ 2 * high_cancel[i].cancellation_rate > TwiceMedianRate(breakdown)

\* C8 witness: the subset is not empty, a row with Total >= 5 is left out of
\* it by the median, and the breakdown has a row with Total < 5, whose rate
\* counts in that median.
C8_Witness ==
    /\ tab1 # NotRun
    /\ tab1.status = "ok"
    /\ tab1.other.shown
    /\ tab1.other.high_cancel # <<>>
    /\ \E r \in Range(tab1.other.other_types) :
        /\ r.total >= 5
        /\ r \notin Range(tab1.other.high_cancel)
    /\ \E r \in Range(tab1.other.other_types) :
        /\ r.total < 5
        /\ r.cancellation_rate > 0

-----------------------------------------------------------------------------
(* Claims about tab 3                                                      *)

\* records of the loaded set that are cancelled, have both dates and were
\* cancelled at or after their creation
TimedFromZero ==
    {i \in DOMAIN data :
        /\ data[i].status = "Cancelled"
        /\ data[i].created_date # NaT
        /\ data[i].canceled_date # NaT
        /\ data[i].canceled_date - data[i].created_date >= 0}

\* C9: once tab 3 has run, every cancelled record with both dates and an
\* elapsed time >= 0 has one of the five labels, the five bucket counts sum to
\* the number of such records, 5 minutes is labelled '<10 mins' and 2 hours
\* '1-5h'.
C9_EveryElapsedFromZeroIsLabelled ==
    (tab3 # NotRun /\ TimedFromZero # {}) =>
        /\ tab3.shown = "chart"
        /\ \A i \in DOMAIN tab3.cancelled_data :
            LET row == tab3.cancelled_data[i] IN
            /\ row.time_to_cancellation >= 0 => row.time_category \in Range(labels)
            /\ row.time_to_cancellation = 300 => row.time_category = "<10 mins"
            /\ row.time_to_cancellation = 7200 => row.time_category = "1-5h"
        /\ SumColumn([n \in DOMAIN labels |-> <<tab3.bucket_counts[labels[n]]>>], 1)
              = Cardinality(TimedFromZero)


-----------------------------------------------------------------------------
(* Claims about the local rates                                            *)

\* a rate in tenths of a percent that is a number from 0 to 100 percent
WithinPercent(rate) == rate >= 0 /\ rate <= 1000

\* C11: every local rate lies in [0, 100]: the rate of every row of the OTHER
\* breakdown of tab 1, the selected employee's overall rate of tab 2 and the
\* rate of every row of that employee's breakdown by category; and the
\* employee's overall rate is 0 when the employee has no records.
C11_LocalRatesWithinBounds ==
    /\ (tab1 # NotRun /\ tab1.status = "ok" /\ tab1.other.shown) =>
            \A r \in Range(tab1.other.other_types) : WithinPercent(r.cancellation_rate)
    /\ tab2 # NotRun =>
            /\ tab2.cancellation_rate.num >= 0
            /\ tab2.cancellation_rate.num <= 100 * tab2.cancellation_rate.den
            /\ Len(tab2.employee_data) = 0 => tab2.cancellation_rate.num = 0
            /\ \A n \in DOMAIN tab2.cancel_by_type :
                    WithinPercent(tab2.cancel_by_type[n].cancellation_rate)

-----------------------------------------------------------------------------
(* Claims about what a view depends on                                     *)

\* the loaded records inside the range held under one date input's key, the
\* range from the first to the last appointment date when nothing is held
OwnSelection(widget) ==
    IF widget = <<>>
    THEN FilterByDate(data, min_date(data), max_date(data))
    ELSE FilterByDate(data, widget[1], widget[2])

\* C12: each view depends only on the loaded record set and its own
\* selections. Whenever a tab has been computed in a run: the filtered set of
\* tabs 1, 2 and 4 is the loaded records inside that tab's own date range,
\* whatever the other two ranges are, and the tab's aggregates are those of
\* that filtered set; the timing result of tab 3 is that of all the loaded
\* records; and the record set is still the one the loader returned, in the
\* run and in the cache.
C12_ViewsDependOnOwnSelectionOnly ==
    /\ (header # NotRun /\ pc # "load") =>
            /\ data = header.returned.data
            /\ cache = <<header.returned>>
    /\ tab1 # NotRun =>
            /\ tab1.filtered_data = OwnSelection(tab1_dates)
            /\ tab1.status = "ok" =>
                    /\ Range(tab1.proc_metrics) =
                           WithClinicRate(CancelledByCategory(OwnSelection(tab1_dates)),
                                          header.returned.total_procedures)
                    /\ tab1.other \in OtherAnalysis(OwnSelection(tab1_dates))
    /\ tab2 # NotRun =>
            /\ tab2.filtered_data = OwnSelection(tab2_dates)
            /\ tab2.employee_data =
                   SelectSeq(OwnSelection(tab2_dates),
                             LAMBDA r : r.created_by = tab2.selected_employee)
            /\ tab2.cancel_by_type = CancelByType(tab2.employee_data)
            /\ tab2.cancellation_rate =
                   LocalRate(CountIf(tab2.employee_data, IsCancelled), Len(tab2.employee_data))
    /\ tab3 # NotRun => tab3 = Tab3Outcome(header.returned.data)
    /\ tab4 # NotRun =>
            /\ tab4.filtered_data = OwnSelection(tab4_dates)
            /\ Range(tab4.cancel_metrics) = CancelMetrics(OwnSelection(tab4_dates))

\* A run that computed all four tabs with three different date ranges held,
\* one per date input, three different filtered sets, and a timed record in
\* tab 3 that lies outside the range of tab 1.
C12_Witness ==
    /\ pc = "done"
    /\ tab1_dates # <<>> /\ tab2_dates # <<>> /\ tab4_dates # <<>>
    /\ tab1_dates # tab2_dates /\ tab2_dates # tab4_dates /\ tab1_dates # tab4_dates
    /\ tab1.filtered_data # tab2.filtered_data
    /\ tab2.filtered_data # tab4.filtered_data
    /\ tab1.filtered_data # tab4.filtered_data
    /\ tab3.shown = "chart"
    /\ \E i \in DOMAIN tab3.cancelled_data :
            \A j \in DOMAIN tab1.filtered_data :
                tab1.filtered_data[j] # tab3.cancelled_data[i].record

====
